---- MODULE Spec2Model ----
(***************************************************************************)
(* A model of the dancing-links exact cover solver: the sparse toroidal    *)
(* grid of src/src/grid.rs (links of src/src/sparse_grid/base_node.rs) and *)
(* the Algorithm X state machine of src/src/solver.rs.                     *)
(*                                                                         *)
(* Identities.  A pointer is modelled by the pair <<row, column>> of the   *)
(* object it points to: <<0, 0>> is the root sentinel, <<0, c>> the header *)
(* of column c (1-based, as Column::index), <<r, c>> the node of row r in  *)
(* column c (1-based, as Node::row).  The immutable fields Node::row,      *)
(* Node::column and Column::index are read off the identity.               *)
(***************************************************************************)
EXTENDS Integers, Sequences, FiniteSets, TLC

\* Bounds of the problems the solver is run on.
MaxRows == 3
MaxCols == 3
\* Bounds of the problems of SpecWide (all constraints mandatory, debug build,
\* every possibility satisfying at least WideMinPerRow constraints).
WideRows == 4
WideCols == 4
WideMinPerRow == 2
\* Bounds of the problems of SpecDeep: the sub-problems of one problem of
\* DeepRows possibilities and DeepCols constraints (debug build).
DeepRows == 8
DeepCols == 5
\* The number of loop iterations after which one next_solution() call, and the
\* number of calls after which one all_solutions() call, is taken never to end.
LoopFuel == 1000

\* Latin squares: side lengths 1..MaxSide, at most MaxFills filled values.
MaxSide == 2
MaxFills == 2

\* n queens: boards of side 1..MaxBoard.
MaxBoard == 4

\* Grid::new called directly: at most NewCols columns, NewLen coordinates with
\* rows 0..NewRows and columns 0..(num_columns + 1).
NewCols == 2
NewRows == 3
NewLen == 3

VARIABLES
    problem,           \* the ExactCover instance and the build profile
    grid,              \* Solver::grid (the sparse grid)
    partial_solution,  \* Solver::partial_solution
    stack,             \* Solver::stack
    status,            \* "ok", or the way the process ended abnormally
    result,            \* what the caller of next_solution() has in hand
    emitted,           \* history: the solutions returned since new()/reset()
    calls,             \* history: the grid calls made by the last step
    last,              \* history: the last operation and the grid it must restore
    coverStack,        \* history: the covered columns, the oldest cover first
    snapshots          \* history: the grid before each cover of a direct caller

vars == <<problem, grid, partial_solution, stack, status, result, emitted,
          calls, last, coverStack, snapshots>>

(***************************************************************************)
(* Helpers.                                                                *)
(***************************************************************************)
Root == <<0, 0>>

\* The value a walk yields when it does not come back to its origin.
Diverge == <<-1, -1>>

Last(s) == s[Len(s)]

Front(s) == SubSeq(s, 1, Len(s) - 1)

Min(S) == CHOOSE x \in S : \A y \in S : x <= y

Max(S) == CHOOSE x \in S : \A y \in S : y <= x

RECURSIVE SortedSeq(_)
SortedSeq(S) ==
    IF S = {} THEN <<>> ELSE <<Min(S)>> \o SortedSeq(S \ {Min(S)})

Range(s) == {s[i] : i \in 1..Len(s)}

(***************************************************************************)
(* BaseNode: the four links and their splice operations.                   *)
(* A grid value is a record of the link maps, the per-column size and      *)
(* is_covered fields, and `fail`, "none" until an assertion fails.         *)
(***************************************************************************)
Link(g, dir, x) ==
    CASE dir = "left" -> g.left[x]
      [] dir = "right" -> g.right[x]
      [] dir = "up" -> g.up[x]
      [] dir = "down" -> g.down[x]

\* Each neighbour is read, changed and written back in turn.
cover_horizontal(g, x) ==
    LET l == g.left[x]
        r == g.right[x]
        g1 == [g EXCEPT !.right[l] = r]
    IN  [g1 EXCEPT !.left[r] = l]

\* A cover_vertical that relinks the lower neighbour only.
cover_vertical_lower_only(g, x) == [g EXCEPT !.up[g.down[x]] = g.up[x]]

\* A cover_vertical that splices the node out of its row instead.
cover_vertical_in_row(g, x) == cover_horizontal(g, x)

cover_vertical(g, x) ==
    LET u == g.up[x]
        d == g.down[x]
        g1 == [g EXCEPT !.down[u] = d]
    IN  [g1 EXCEPT !.up[d] = u]

uncover_horizontal(g, x) ==
    LET l == g.left[x]
        r == g.right[x]
        g1 == [g EXCEPT !.right[l] = x]
    IN  [g1 EXCEPT !.left[r] = x]

\* An uncover_vertical that relinks the upper neighbour only.
uncover_vertical_upper_only(g, x) == [g EXCEPT !.down[g.up[x]] = x]

uncover_vertical(g, x) ==
    LET u == g.up[x]
        d == g.down[x]
        g1 == [g EXCEPT !.down[u] = x]
    IN  [g1 EXCEPT !.up[d] = x]

\* The number of steps after which a walk is taken never to return.
Fuel(g) == 4 * Cardinality(DOMAIN g.left)

\* BaseNodeIterator over an unchanging grid: the objects met from `orig` in
\* direction `dir` until `orig` is met again, `skip` left out.
RECURSIVE WalkFrom(_, _, _, _, _, _)
WalkFrom(g, dir, orig, skip, cur, fuel) ==
    LET next == Link(g, dir, cur)
    IN  IF next = orig THEN <<>>
        ELSE IF fuel = 0 THEN <<Diverge>>
        ELSE IF next = skip THEN WalkFrom(g, dir, orig, skip, next, fuel - 1)
        ELSE <<next>> \o WalkFrom(g, dir, orig, skip, next, fuel - 1)

Walk(g, dir, orig, skip) == WalkFrom(g, dir, orig, skip, orig, Fuel(g))

(***************************************************************************)
(* Grid::new                                                               *)
(***************************************************************************)
Ids(num_columns, coordinates) ==
    {<<0, c>> : c \in 0..num_columns} \cup coordinates

\* columns_data[column - 1] after the sort: the rows of a column, ascending.
ColumnData(coordinates, c) ==
    SortedSeq({p[1] : p \in {q \in coordinates : q[2] = c}})

\* least_nodes for one row value: the columns of the row, ascending.
LeastNodes(coordinates, r) ==
    SortedSeq({p[2] : p \in {q \in coordinates : q[1] = r}})

IndexOf(s, v) == CHOOSE i \in 1..Len(s) : s[i] = v

NewGrid(num_columns, coordinates) ==
    LET ids == Ids(num_columns, coordinates)
        n == num_columns + 1
        rowOf(x) == LeastNodes(coordinates, x[1])
        colOf(x) == ColumnData(coordinates, x[2])
        right(x) ==
            IF x[1] = 0 THEN <<0, (x[2] + 1) % n>>
            ELSE <<x[1], rowOf(x)[(IndexOf(rowOf(x), x[2]) % Len(rowOf(x))) + 1]>>
        left(x) ==
            IF x[1] = 0 THEN <<0, (x[2] + n - 1) % n>>
            ELSE <<x[1], rowOf(x)[((IndexOf(rowOf(x), x[2]) + Len(rowOf(x)) - 2)
                                   % Len(rowOf(x))) + 1]>>
        down(x) ==
            IF x = Root \/ colOf(x) = <<>> THEN x
            ELSE IF x[1] = 0 THEN <<colOf(x)[1], x[2]>>
            ELSE IF IndexOf(colOf(x), x[1]) = Len(colOf(x)) THEN <<0, x[2]>>
            ELSE <<colOf(x)[IndexOf(colOf(x), x[1]) + 1], x[2]>>
        up(x) ==
            IF x = Root \/ colOf(x) = <<>> THEN x
            ELSE IF x[1] = 0 THEN <<Last(colOf(x)), x[2]>>
            ELSE IF IndexOf(colOf(x), x[1]) = 1 THEN <<0, x[2]>>
            ELSE <<colOf(x)[IndexOf(colOf(x), x[1]) - 1], x[2]>>
    IN  [left |-> [x \in ids |-> left(x)],
         right |-> [x \in ids |-> right(x)],
         up |-> [x \in ids |-> up(x)],
         down |-> [x \in ids |-> down(x)],
         size |-> [c \in 0..num_columns |-> Len(ColumnData(coordinates, c))],
         is_covered |-> [c \in 0..num_columns |-> FALSE],
         fail |-> "none"]

(***************************************************************************)
(* Grid::new step by step, from the coordinates in the order given.  A     *)
(* node is <<row, column, k>>, the k-th node of its column; the grid keeps *)
(* num_columns and max_row beside the links.                               *)
(***************************************************************************)
\* add_direction!: self.direction = neighbor, then neighbor.opposite = self.
add_direction(g, dir, x, y) ==
    CASE dir = "right" -> [[g EXCEPT !.right[x] = y] EXCEPT !.left[y] = x]
      [] dir = "below" -> [[g EXCEPT !.down[x] = y] EXCEPT !.up[y] = x]
      [] dir = "above" -> [[g EXCEPT !.up[x] = y] EXCEPT !.down[y] = x]

RECURSIVE AddLinks(_, _)
AddLinks(g, links) ==
    IF links = <<>> THEN g
    ELSE AddLinks(add_direction(g, links[1][1], links[1][2], links[1][3]), Tail(links))

\* A bucket left in the order the coordinates arrived.
SortByRowSkipped(s) == s

\* sort_unstable_by_key on the row: equal keys belong to equal pairs here.
RECURSIVE SortByRow(_)
SortByRow(s) ==
    IF s = <<>> THEN s
    ELSE LET m == Min({s[i][1] : i \in 1..Len(s)})
             i == Min({j \in 1..Len(s) : s[j][1] = m})
         IN  <<s[i]>> \o SortByRow(SubSeq(s, 1, i - 1) \o SubSeq(s, i + 1, Len(s)))

\* columns_data[column - 1] after the sort, as its rows.
columns_data(coordinates, c) ==
    LET d == SortByRow(SelectSeq(coordinates, LAMBDA p : p[2] = c))
    IN  [k \in 1..Len(d) |-> d[k][1]]

NodeAt(coordinates, c, k) == <<columns_data(coordinates, c)[k], c, k>>

\* The first check a coordinate fails, in the order of the coordinates: the
\* debug assertions of a debug build, the index into columns_data otherwise.
RECURSIVE CoordinateFailure(_, _, _)
CoordinateFailure(num_columns, coordinates, debug) ==
    IF coordinates = <<>> THEN "none"
    ELSE LET row == coordinates[1][1]
             column == coordinates[1][2]
         IN  IF debug /\ (row = 0 \/ column = 0) THEN "debug_assert_zero"
             ELSE IF debug /\ column > num_columns THEN "debug_assert_bounds"
             ELSE IF column = 0 \/ column > num_columns THEN "index_out_of_bounds"
             ELSE CoordinateFailure(num_columns, Tail(coordinates), debug)

\* The vertical links of column c: node to node downward, then the header
\* to the first and to the last node.
VerticalLinks(coordinates, c) ==
    LET n == Len(columns_data(coordinates, c))
    IN  [k \in 1..(n - 1) |->
            <<"below", NodeAt(coordinates, c, k), NodeAt(coordinates, c, k + 1)>>]
        \o (IF n = 0 THEN <<>>
            ELSE <<<<"below", <<0, c>>, NodeAt(coordinates, c, 1)>>,
                   <<"above", <<0, c>>, NodeAt(coordinates, c, n)>>>>)

\* The horizontal links: while a column has a node left, the top nodes with
\* the least row are linked in a circle, in column order, and replaced by
\* the next nodes of their columns.  top[c] is the position of the top node
\* of column c.
RECURSIVE HorizontalLinks(_, _, _)
HorizontalLinks(num_columns, coordinates, top) ==
    LET some == {c \in 1..num_columns : top[c] <= Len(columns_data(coordinates, c))}
        least_row == Min({columns_data(coordinates, c)[top[c]] : c \in some})
        least_nodes == SortedSeq({c \in some :
                                     columns_data(coordinates, c)[top[c]] = least_row})
        n == Len(least_nodes)
    IN  IF some = {} THEN <<>>
        ELSE [i \in 1..n |->
                 <<"right", NodeAt(coordinates, least_nodes[i], top[least_nodes[i]]),
                   NodeAt(coordinates, least_nodes[(i % n) + 1],
                          top[least_nodes[(i % n) + 1]])>>]
             \o HorizontalLinks(num_columns, coordinates,
                    [c \in 1..num_columns |->
                        IF c \in Range(least_nodes) THEN top[c] + 1 ELSE top[c]])

RECURSIVE Flatten(_)
Flatten(ss) == IF ss = <<>> THEN <<>> ELSE ss[1] \o Flatten(Tail(ss))

\* Grid::new / Grid::add_all_coordinates
GridNew(num_columns, coordinates, debug) ==
    LET failure == CoordinateFailure(num_columns, coordinates, debug)
        ok == IF failure = "none" THEN coordinates ELSE <<>>
        ids == {<<0, c>> : c \in 0..num_columns}
               \cup UNION {{NodeAt(ok, c, k) : k \in 1..Len(columns_data(ok, c))} :
                           c \in 1..num_columns}
        alone == [x \in ids |-> x]
        bare == [left |-> alone, right |-> alone, up |-> alone, down |-> alone,
                 size |-> [c \in 0..num_columns |-> Len(columns_data(ok, c))],
                 is_covered |-> [c \in 0..num_columns |-> FALSE],
                 fail |-> failure,
                 num_columns |-> num_columns,
                 max_row |-> Max({0} \cup {ok[i][1] : i \in 1..Len(ok)})]
        headers == [c \in 1..(num_columns + 1) |->
                       <<"right", <<0, c - 1>>, <<0, c % (num_columns + 1)>>>>]
    IN  AddLinks(bare,
                 headers
                 \o Flatten([c \in 1..num_columns |-> VerticalLinks(ok, c)])
                 \o HorizontalLinks(num_columns, ok, [c \in 1..num_columns |-> 1]))

(***************************************************************************)
(* Column and Node operations.                                             *)
(***************************************************************************)
increment_size(g, c) == [g EXCEPT !.size[c] = @ + 1]

\* usize: in a build that traps overflow (a debug build) 0 - 1 panics; else it
\* wraps, and the wrapped value 2^64 - k is kept as -k.
decrement_size(g, c, debug) ==
    IF g.size[c] = 0 /\ debug THEN [g EXCEPT !.fail = "size_underflow"]
    ELSE [g EXCEPT !.size[c] = @ - 1]

RECURSIVE CoverRowFrom(_, _, _, _, _)
CoverRowFrom(g, orig, cur, fuel, debug) ==
    IF g.fail # "none" THEN g
    ELSE LET next == g.right[cur]
         IN  IF next = orig THEN g
             ELSE IF fuel = 0 THEN [g EXCEPT !.fail = "hang"]
             ELSE CoverRowFrom(cover_vertical(decrement_size(g, next[2], debug), next),
                               orig, next, fuel - 1, debug)

\* A cover_row that unlinks the originating node from its own column too.
cover_row_with_origin(g, n, debug) ==
    LET g1 == CoverRowFrom(g, n, n, Fuel(g), debug)
    IN  IF g1.fail # "none" THEN g1 ELSE cover_vertical(decrement_size(g1, n[2], debug), n)

cover_row(g, n, debug) == CoverRowFrom(g, n, n, Fuel(g), debug)

RECURSIVE UncoverRowFrom(_, _, _, _)
UncoverRowFrom(g, orig, cur, fuel) ==
    LET next == g.left[cur]
    IN  IF next = orig THEN g
        ELSE IF fuel = 0 THEN [g EXCEPT !.fail = "hang"]
        ELSE UncoverRowFrom(uncover_vertical(increment_size(g, next[2]), next),
                            orig, next, fuel - 1)

uncover_row(g, n) == UncoverRowFrom(g, n, n, Fuel(g))

RECURSIVE CoverDownFrom(_, _, _, _, _)
CoverDownFrom(g, orig, cur, fuel, debug) ==
    IF g.fail # "none" THEN g
    ELSE LET next == g.down[cur]
         IN  IF next = orig THEN g
             ELSE IF fuel = 0 THEN [g EXCEPT !.fail = "hang"]
             ELSE CoverDownFrom(cover_row(g, next, debug), orig, next, fuel - 1, debug)

RECURSIVE UncoverUpFrom(_, _, _, _)
UncoverUpFrom(g, orig, cur, fuel) ==
    IF g.fail # "none" THEN g
    ELSE LET next == g.up[cur]
         IN  IF next = orig THEN g
             ELSE IF fuel = 0 THEN [g EXCEPT !.fail = "hang"]
             ELSE UncoverUpFrom(uncover_row(g, next), orig, next, fuel - 1)

\* The header is read into a local copy first and written back whole last.
WriteBack(g0, g, c, covered) ==
    LET h == <<0, c>>
    IN  [g EXCEPT !.left[h] = g0.left[h], !.right[h] = g0.right[h],
                  !.up[h] = g0.up[h], !.down[h] = g0.down[h],
                  !.size[c] = g0.size[c], !.is_covered[c] = covered]

\* Column::cover
Cover(g, c, debug) ==
    IF g.fail # "none" THEN g
    ELSE IF g.is_covered[c] THEN [g EXCEPT !.fail = "cover_assert"]
    ELSE LET h == <<0, c>>
             g1 == cover_horizontal(g, h)
             g2 == CoverDownFrom(g1, h, h, Fuel(g), debug)
         IN  IF g2.fail # "none" THEN g2 ELSE WriteBack(g, g2, c, TRUE)

\* Column::uncover
Uncover(g, c) ==
    IF g.fail # "none" THEN g
    ELSE IF ~g.is_covered[c] THEN [g EXCEPT !.fail = "uncover_assert"]
    ELSE LET h == <<0, c>>
             g1 == UncoverUpFrom(g, h, h, Fuel(g))
         IN  IF g1.fail # "none" THEN g1
             ELSE WriteBack(g, uncover_horizontal(g1, h), c, FALSE)

(***************************************************************************)
(* The order in which Column::cover and Column::uncover visit the objects  *)
(* they splice: the header for cover_horizontal / uncover_horizontal, a    *)
(* node for cover_vertical / uncover_vertical.  The walks read the links   *)
(* of the grid as the calls so far have left it.                           *)
(***************************************************************************)
RECURSIVE CoverRowTrace(_, _, _, _, _)
CoverRowTrace(g, orig, cur, fuel, debug) ==
    IF g.fail # "none" THEN <<>>
    ELSE LET next == g.right[cur]
         IN  IF next = orig \/ fuel = 0 THEN <<>>
             ELSE <<next>> \o
                  CoverRowTrace(cover_vertical(decrement_size(g, next[2], debug), next),
                                orig, next, fuel - 1, debug)

RECURSIVE UncoverRowTrace(_, _, _, _)
UncoverRowTrace(g, orig, cur, fuel) ==
    LET next == g.left[cur]
    IN  IF next = orig \/ fuel = 0 THEN <<>>
        ELSE <<next>> \o
             UncoverRowTrace(uncover_vertical(increment_size(g, next[2]), next),
                             orig, next, fuel - 1)

RECURSIVE CoverDownTrace(_, _, _, _, _)
CoverDownTrace(g, orig, cur, fuel, debug) ==
    IF g.fail # "none" THEN <<>>
    ELSE LET next == g.down[cur]
         IN  IF next = orig \/ fuel = 0 THEN <<>>
             ELSE CoverRowTrace(g, next, next, Fuel(g), debug) \o
                  CoverDownTrace(cover_row(g, next, debug), orig, next, fuel - 1, debug)

\* A Column::uncover that walks its rows downward.
RECURSIVE UncoverDownTrace(_, _, _, _)
UncoverDownTrace(g, orig, cur, fuel) ==
    IF g.fail # "none" THEN <<>>
    ELSE LET next == g.down[cur]
         IN  IF next = orig \/ fuel = 0 THEN <<>>
             ELSE UncoverRowTrace(g, next, next, Fuel(g)) \o
                  UncoverDownTrace(uncover_row(g, next), orig, next, fuel - 1)

RECURSIVE UncoverUpTrace(_, _, _, _)
UncoverUpTrace(g, orig, cur, fuel) ==
    IF g.fail # "none" THEN <<>>
    ELSE LET next == g.up[cur]
         IN  IF next = orig \/ fuel = 0 THEN <<>>
             ELSE UncoverRowTrace(g, next, next, Fuel(g)) \o
                  UncoverUpTrace(uncover_row(g, next), orig, next, fuel - 1)

\* The objects Column::cover unlinks, in order.
CoverTrace(g, c, debug) ==
    <<<<0, c>>>> \o CoverDownTrace(cover_horizontal(g, <<0, c>>), <<0, c>>, <<0, c>>,
                                   Fuel(g), debug)

\* The objects Column::uncover relinks, in order.
UncoverTrace(g, c) ==
    UncoverUpTrace(g, <<0, c>>, <<0, c>>, Fuel(g)) \o <<<<0, c>>>>

Reverse(s) == [i \in 1..Len(s) |-> s[Len(s) + 1 - i]]

\* Grid::uncovered_columns: the column indices met walking right from the root.
uncovered_columns(g) == [i \in 1..Len(Walk(g, "right", Root, Root)) |->
                            Walk(g, "right", Root, Root)[i][2]]

\* Column::rows: the nodes met walking down from the header.
rows(g, c) == Walk(g, "down", <<0, c>>, <<0, c>>)

\* Column::row_indices: the rows of the nodes of Column::rows.
row_indices(g, c) == [i \in 1..Len(rows(g, c)) |-> rows(g, c)[i][1]]

\* Grid::to_dense, as the set of the coordinates that hold true.
to_dense(g) ==
    {<<row_indices(g, uncovered_columns(g)[k])[i], uncovered_columns(g)[k]>> :
        <<k, i>> \in {q \in (1..Len(uncovered_columns(g))) \X (1..Cardinality(DOMAIN g.left)) :
                        q[2] <= Len(rows(g, uncovered_columns(g)[q[1]]))}}

\* Grid::to_dense with its dimensions: max_row rows of num_columns cells.
DenseView(g) ==
    IF g.num_columns = 0 THEN <<>>
    ELSE [r \in 1..g.max_row |->
             [c \in 1..g.num_columns |->
                 \E d \in Range(uncovered_columns(g)) : r \in Range(row_indices(g, d)) /\ d = c]]

\* A test of the root's vertical link, which never changes.
grid_is_empty_down(g) == g.down[Root] = Root

\* Grid::is_empty
grid_is_empty(g) == g.right[Root] = Root

\* Column::is_empty: the value returned, and the debug assertion on the way.
column_is_empty(g, c, debug) ==
    LET empty == g.down[<<0, c>>] = <<0, c>>
    IN  [value |-> empty,
         fail |-> IF debug /\ ~(~empty /\ g.size[c] = 0)
                  THEN "debug_assert_size" ELSE "none"]

\* Node::neighbors: the nodes met walking left from the node, itself left out.
neighbors(g, n) == Walk(g, "left", n, <<-2, -2>>)

(***************************************************************************)
(* The problem (trait ExactCover) and the Grid interface the solver uses.  *)
(* A problem is [np, nc, satisfies, optional, debug]: np possibilities and *)
(* nc constraints (0-based indices), the pairs <<p, c>> with               *)
(* satisfies(p, c), the optional constraints, and whether the build has    *)
(* debug assertions and overflow traps.                                     *)
(***************************************************************************)
is_optional(pb, cons) == cons \in pb.optional

\* Solver::populate_grid
populate_grid(pb) ==
    NewGrid(pb.nc, {<<p[1] + 1, p[2] + 1>> : p \in pb.satisfies})

\* Grid::column_id of the sparse grid: the index into constraints().
column_id(column) == column - 1

\* Grid::row_id of the sparse grid: Node::row.
row_id(n) == n[1]

column_size(g, column) == g.size[column]

\* Grid::uncovered_columns_in_row of the sparse grid: the columns of the
\* row's nodes, the node's own column last.
uncovered_columns_in_row(g, n) ==
    LET ns == neighbors(g, n) \o <<n>>
    IN  [i \in 1..Len(ns) |-> ns[i][2]]

\* The order of usize on sizes (a wrapped size -k stands for 2^64 - k).
ULess(a, b) == (a >= 0 /\ b < 0) \/ ((a < 0) = (b < 0) /\ a < b)

\* Solver::solution_test
solution_test(g, pb) ==
    LET cols == uncovered_columns(g)
    IN  ~\E i \in 1..Len(cols) : ~is_optional(pb, column_id(cols[i]))

\* A min_by_key that keeps the last smallest element.
MinBySizeLast(g, cols) ==
    LET ok == {i \in 1..Len(cols) :
                \A j \in 1..Len(cols) : ~ULess(column_size(g, cols[j]), column_size(g, cols[i]))}
    IN  IF cols = <<>> THEN 0 ELSE cols[CHOOSE i \in ok : \A j \in ok : j <= i]

\* min_by_key keeps the first smallest element.
MinBySizeFirst(g, cols) ==
    LET ok == {i \in 1..Len(cols) :
                \A j \in 1..Len(cols) : ~ULess(column_size(g, cols[j]), column_size(g, cols[i]))}
    IN  IF cols = <<>> THEN 0 ELSE cols[Min(ok)]

\* Solver::choose_column; 0 stands for the None that unwrap() panics on.
choose_column(g, pb) ==
    LET cols == uncovered_columns(g)
        mandatory == {i \in 1..Len(cols) : ~is_optional(pb, column_id(cols[i]))}
        filtered == [k \in 1..Cardinality(mandatory) |-> cols[SortedSeq(mandatory)[k]]]
    IN  MinBySizeFirst(g, filtered)

\* A candidate queue that lists every row twice.
select_rows_twice(g, min_column) ==
    LET ns == rows(g, min_column) \o rows(g, min_column)
    IN  [i \in 1..Len(ns) |->
            [row |-> row_id(ns[i]), columns |-> uncovered_columns_in_row(g, ns[i])]]

\* Solver::select_rows_from_column
select_rows_from_column(g, min_column) ==
    LET ns == rows(g, min_column)
    IN  [i \in 1..Len(ns) |->
            [row |-> row_id(ns[i]), columns |-> uncovered_columns_in_row(g, ns[i])]]

\* Whether one of the walks of a step never returned to its origin.
WalkDiverges(g) ==
    \/ -1 \in Range(uncovered_columns(g))
    \/ \E c \in Range(uncovered_columns(g)) \ {-1} : Diverge \in Range(rows(g, c))

RECURSIVE CoverAll(_, _, _)
CoverAll(g, columns, debug) ==
    IF columns = <<>> THEN g
    ELSE CoverAll(Cover(g, columns[1], debug), Tail(columns), debug)

RECURSIVE UncoverAll(_, _)
UncoverAll(g, columns) ==
    IF columns = <<>> THEN g
    ELSE UncoverAll(Uncover(g, columns[1]), Tail(columns))

\* The columns of a candidate in the order the Uncover arm uncovers them.
UncoverOrder(columns) == columns

\* A push that does not look at selected_rows.
NewFramesAlways(g, pb) ==
    <<[min_column |-> choose_column(g, pb),
       selected_rows |-> select_rows_from_column(g, choose_column(g, pb)),
       state |-> "Cover", saved |-> g, covered |-> <<>>]>>

\* The frame (if any) that reset() and the Cover arm push for grid g.
NewFrames(g, pb) ==
    LET min_column == choose_column(g, pb)
        selected_rows == select_rows_from_column(g, min_column)
    IN  IF selected_rows = <<>> THEN <<>>
        ELSE <<[min_column |-> min_column, selected_rows |-> selected_rows,
                state |-> "Cover", saved |-> g, covered |-> <<>>]>>

(***************************************************************************)
(* History kept beside the program state.                                  *)
(***************************************************************************)
\* The columns covered and not yet uncovered, oldest first, after `cs`, and
\* whether every uncover of `cs` was of the column covered most recently.
RECURSIVE Replay(_, _, _)
Replay(order, lifo, cs) ==
    IF cs = <<>> THEN [order |-> order, lifo |-> lifo]
    ELSE IF cs[1].op = "cover"
         THEN Replay(Append(order, cs[1].column), lifo, Tail(cs))
         ELSE Replay(SelectSeq(order, LAMBDA c : c # cs[1].column),
                     lifo /\ order # <<>> /\ Last(order) = cs[1].column,
                     Tail(cs))

CallsOf(op, columns) == [i \in 1..Len(columns) |-> [op |-> op, column |-> columns[i]]]

\* The grid after the first k calls of `cs` made on g.
RECURSIVE GridAfter(_, _, _, _)
GridAfter(g, cs, k, debug) ==
    IF k = 0 THEN g
    ELSE LET h == GridAfter(g, cs, k - 1, debug)
         IN  IF cs[k].op = "cover" THEN Cover(h, cs[k].column, debug)
             ELSE Uncover(h, cs[k].column)

(***************************************************************************)
(* Solver::new / Solver::reset                                             *)
(***************************************************************************)
ResetStack(pb) ==
    LET g == populate_grid(pb)
    IN  IF ~solution_test(g, pb) THEN NewFrames(g, pb) ELSE <<>>

Fresh(pb) ==
    /\ problem' = pb
    /\ grid' = populate_grid(pb)
    /\ partial_solution' = <<>>
    /\ stack' = ResetStack(pb)
    /\ status' = "ok"
    /\ result' = [kind |-> "fresh", solution |-> <<>>]
    /\ emitted' = <<>>
    /\ calls' = <<>>
    /\ last' = [op |-> "new", before |-> populate_grid(pb), saved |-> populate_grid(pb),
                lifo |-> TRUE]
    /\ coverStack' = <<>>
    /\ snapshots' = <<>>

Problems(maxRows, maxCols) ==
    UNION {UNION {[np : {np}, nc : {nc},
                   satisfies : SUBSET ((0..(np - 1)) \X (0..(nc - 1))),
                   optional : SUBSET (0..(nc - 1)),
                   debug : BOOLEAN] : nc \in 0..maxCols} : np \in 0..maxRows}

WideProblems ==
    [np : {WideRows}, nc : {WideCols},
     satisfies : {s \in SUBSET ((0..(WideRows - 1)) \X (0..(WideCols - 1))) :
                    \A p \in 0..(WideRows - 1) :
                        Cardinality({q \in s : q[1] = p}) >= WideMinPerRow},
     optional : {{}},
     debug : {TRUE}]

StartOn(pb) ==
    /\ problem = pb
    /\ grid = populate_grid(pb)
    /\ partial_solution = <<>>
    /\ stack = ResetStack(pb)
    /\ status = "ok"
    /\ result = [kind |-> "fresh", solution |-> <<>>]
    /\ emitted = <<>>
    /\ calls = <<>>
    /\ last = [op |-> "new", before |-> populate_grid(pb), saved |-> populate_grid(pb),
               lifo |-> TRUE]
    /\ coverStack = <<>>
    /\ snapshots = <<>>

Init == \E pb \in Problems(MaxRows, MaxCols) : StartOn(pb)

InitWide == \E pb \in WideProblems : StartOn(pb)

\* One problem with a mandatory constraint and two exact covers, {1, 6} and
\* {4, 7}; constraint 3 is optional.
DeepSatisfies ==
    {<<0, 1>>, <<0, 3>>, <<1, 0>>, <<1, 1>>, <<1, 2>>, <<2, 0>>, <<2, 2>>, <<2, 3>>,
     <<2, 4>>, <<3, 0>>, <<3, 2>>, <<3, 3>>, <<4, 1>>, <<4, 2>>, <<5, 1>>, <<5, 3>>,
     <<6, 4>>, <<7, 0>>, <<7, 4>>}

DeepOptional == {3}

\* Its sub-problems: the possibilities outside K satisfy nothing.
DeepProblems ==
    [np : {DeepRows}, nc : {DeepCols},
     satisfies : {{q \in DeepSatisfies : q[1] \in K} : K \in SUBSET (0..(DeepRows - 1))},
     optional : {DeepOptional},
     debug : {TRUE}]

InitDeep == \E pb \in DeepProblems : StartOn(pb)

(***************************************************************************)
(* Solver::next_solution, one iteration of its loop per action.            *)
(***************************************************************************)
\* The solver as a value: the fields of Solver and the history beside them.
Cur ==
    [grid |-> grid, partial_solution |-> partial_solution, stack |-> stack,
     status |-> status, result |-> result, emitted |-> emitted, calls |-> calls,
     last |-> last, coverStack |-> coverStack]

\* The Cover arm on the top frame of solver s, and the push that follows it.
CoverArmOn(pb, s) ==
    LET frame == Last(s.stack)
        cand == IF frame.selected_rows = <<>> THEN [row |-> 1, columns |-> <<>>]
                ELSE frame.selected_rows[1]
        ps == Append(s.partial_solution, cand.row - 1)
        cs == CallsOf("cover", cand.columns)
        g == CoverAll(s.grid, cand.columns, pb.debug)
        rp == Replay(s.coverStack, TRUE, cs)
        hist == [op |-> "cover", before |-> s.grid, saved |-> s.grid, lifo |-> rp.lifo]
        done == [frame EXCEPT !.state = "Uncover", !.saved = s.grid, !.covered = cand.columns]
        base == [grid |-> g, partial_solution |-> ps, stack |-> s.stack, status |-> "ok",
                 result |-> [kind |-> "pending", solution |-> <<>>], emitted |-> s.emitted,
                 calls |-> cs, last |-> hist, coverStack |-> rp.order]
    IN  IF frame.selected_rows = <<>> THEN [base EXCEPT !.status = "unwrap_none", !.grid = s.grid]
        ELSE IF cand.row = 0 /\ pb.debug THEN [base EXCEPT !.status = "sub_overflow", !.grid = s.grid]
        ELSE IF g.fail # "none" THEN [base EXCEPT !.status = g.fail]
        ELSE IF WalkDiverges(g) THEN [base EXCEPT !.status = "hang"]
        ELSE IF solution_test(g, pb)
             THEN [base EXCEPT !.stack = Front(s.stack) \o <<done>>,
                               !.result = [kind |-> "some", solution |-> ps],
                               !.emitted = Append(s.emitted, ps)]
        ELSE IF choose_column(g, pb) = 0 THEN [base EXCEPT !.status = "unwrap_none"]
        ELSE [base EXCEPT !.stack = Front(s.stack) \o <<done>> \o NewFrames(g, pb)]

CoverArm == CoverArmOn(problem, Cur)

\* The Uncover arm on the top frame of solver s, and the pop that may follow it.
UncoverArmOn(pb, s) ==
    LET frame == Last(s.stack)
        cand == IF frame.selected_rows = <<>> THEN [row |-> 1, columns |-> <<>>]
                ELSE frame.selected_rows[1]
        rest == Tail(frame.selected_rows)
        order == UncoverOrder(cand.columns)
        cs == CallsOf("uncover", order)
        g == UncoverAll(s.grid, order)
        rp == Replay(s.coverStack, TRUE, cs)
        hist == [op |-> "uncover", before |-> s.grid, saved |-> frame.saved, lifo |-> rp.lifo]
        popped == IF pb.debug THEN Front(s.partial_solution) ELSE s.partial_solution
        base == [grid |-> g, partial_solution |-> popped, stack |-> s.stack, status |-> "ok",
                 result |-> [kind |-> "pending", solution |-> <<>>], emitted |-> s.emitted,
                 calls |-> cs, last |-> hist, coverStack |-> rp.order]
    IN  IF frame.selected_rows = <<>> THEN [base EXCEPT !.status = "unwrap_none", !.grid = s.grid,
                                                         !.partial_solution = s.partial_solution]
        ELSE IF g.fail # "none" THEN [base EXCEPT !.status = g.fail,
                                                  !.partial_solution = s.partial_solution]
        ELSE IF pb.debug /\ (s.partial_solution = <<>> \/ Last(s.partial_solution) # cand.row - 1)
             THEN [base EXCEPT !.status = "debug_assert_eq"]
        ELSE IF rest = <<>> THEN [base EXCEPT !.stack = Front(s.stack)]
        ELSE [base EXCEPT !.stack = Front(s.stack) \o
                              <<[frame EXCEPT !.selected_rows = rest, !.state = "Cover"]>>]

UncoverArm == UncoverArmOn(problem, Cur)

Becomes(o) ==
    /\ grid' = o.grid
    /\ partial_solution' = o.partial_solution
    /\ stack' = o.stack
    /\ status' = o.status
    /\ result' = o.result
    /\ emitted' = o.emitted
    /\ calls' = o.calls
    /\ last' = o.last
    /\ coverStack' = o.coverStack
    /\ UNCHANGED <<problem, snapshots>>

CoverStep ==
    /\ status = "ok"
    /\ stack # <<>>
    /\ Last(stack).state = "Cover"
    /\ Becomes(CoverArm)

UncoverStep ==
    /\ status = "ok"
    /\ stack # <<>>
    /\ Last(stack).state = "Uncover"
    /\ Becomes(UncoverArm)

\* The loop ends: next_solution() returns None.
ReturnNone ==
    /\ status = "ok"
    /\ stack = <<>>
    /\ result' = [kind |-> "none", solution |-> <<>>]
    /\ calls' = <<>>
    /\ last' = [op |-> "none", before |-> grid, saved |-> grid, lifo |-> TRUE]
    /\ UNCHANGED <<problem, grid, partial_solution, stack, status, emitted, coverStack,
                   snapshots>>

\* Solver::reset, called between two next_solution() calls.
Reset ==
    /\ status = "ok"
    /\ result.kind \in {"some", "none"}
    /\ Fresh(problem)

Next == CoverStep \/ UncoverStep \/ ReturnNone \/ Reset

Spec == Init /\ [][Next]_vars

SpecWide == InitWide /\ [][Next]_vars

SpecDeep == InitDeep /\ [][Next]_vars

(***************************************************************************)
(* The grid used directly (as the tests of grid.rs do): a caller covers    *)
(* uncovered columns and undoes its covers, the most recent first.         *)
(***************************************************************************)
GridProblems ==
    {pb \in Problems(MaxRows, MaxCols) : pb.optional = {}}

InitGrid == \E pb \in GridProblems : StartOn(pb)

GridCover(c) ==
    /\ status = "ok"
    /\ c \in 1..problem.nc
    /\ ~grid.is_covered[c]
    /\ grid' = Cover(grid, c, problem.debug)
    /\ coverStack' = Append(coverStack, c)
    /\ snapshots' = Append(snapshots, grid)
    /\ calls' = <<[op |-> "cover", column |-> c]>>
    /\ last' = [op |-> "grid_cover", before |-> grid, saved |-> grid, lifo |-> TRUE]
    /\ status' = IF Cover(grid, c, problem.debug).fail = "none" THEN "ok"
                  ELSE Cover(grid, c, problem.debug).fail
    /\ UNCHANGED <<problem, partial_solution, stack, result, emitted>>

GridUncover ==
    /\ status = "ok"
    /\ coverStack # <<>>
    /\ grid' = Uncover(grid, Last(coverStack))
    /\ coverStack' = Front(coverStack)
    /\ snapshots' = Front(snapshots)
    /\ calls' = <<[op |-> "uncover", column |-> Last(coverStack)]>>
    /\ last' = [op |-> "grid_uncover", before |-> grid, saved |-> Last(snapshots),
                lifo |-> TRUE]
    /\ status' = IF Uncover(grid, Last(coverStack)).fail = "none" THEN "ok"
                  ELSE Uncover(grid, Last(coverStack)).fail
    /\ UNCHANGED <<problem, partial_solution, stack, result, emitted>>

NextGrid == (\E c \in 1..MaxCols : GridCover(c)) \/ GridUncover

SpecGrid == InitGrid /\ [][NextGrid]_vars

(***************************************************************************)
(* The solver's methods as functions of the solver value: reset(),         *)
(* with_grid(), next_solution() run to its return, and all_solutions().    *)
(***************************************************************************)
\* A reset() that leaves partial_solution as it is.
reset_keeps_partial(pb, s) ==
    [s EXCEPT !.grid = populate_grid(pb),
              !.stack = ResetStack(pb),
              !.result = [kind |-> "fresh", solution |-> <<>>],
              !.emitted = <<>>,
              !.calls = <<>>,
              !.last = [op |-> "new", before |-> populate_grid(pb),
                        saved |-> populate_grid(pb), lifo |-> TRUE],
              !.coverStack = <<>>]

\* Solver::reset
reset(pb, s) ==
    [s EXCEPT !.grid = populate_grid(pb),
              !.partial_solution = <<>>,
              !.stack = ResetStack(pb),
              !.result = [kind |-> "fresh", solution |-> <<>>],
              !.emitted = <<>>,
              !.calls = <<>>,
              !.last = [op |-> "new", before |-> populate_grid(pb),
                        saved |-> populate_grid(pb), lifo |-> TRUE],
              !.coverStack = <<>>]

\* Solver::with_grid (and Solver::new): the fields are built, then reset().
with_grid(pb) ==
    reset(pb, [grid |-> populate_grid(pb), partial_solution |-> <<>>, stack |-> <<>>,
               status |-> "ok", result |-> [kind |-> "fresh", solution |-> <<>>],
               emitted |-> <<>>, calls |-> <<>>,
               last |-> [op |-> "new", before |-> populate_grid(pb),
                         saved |-> populate_grid(pb), lifo |-> TRUE],
               coverStack |-> <<>>])

\* The loop of next_solution(), up to its return (or to the failure).
RECURSIVE NextSolutionFrom(_, _, _)
NextSolutionFrom(pb, s, fuel) ==
    IF s.status # "ok" THEN s
    ELSE IF s.stack = <<>>
         THEN [s EXCEPT !.result = [kind |-> "none", solution |-> <<>>],
                        !.calls = <<>>,
                        !.last = [op |-> "none", before |-> s.grid, saved |-> s.grid,
                                  lifo |-> TRUE]]
    ELSE IF fuel = 0 THEN [s EXCEPT !.status = "hang"]
    ELSE LET t == IF Last(s.stack).state = "Cover" THEN CoverArmOn(pb, s)
                  ELSE UncoverArmOn(pb, s)
         IN  IF t.status # "ok" \/ t.result.kind = "some" THEN t
             ELSE NextSolutionFrom(pb, t, fuel - 1)

next_solution(pb, s) == NextSolutionFrom(pb, s, LoopFuel)

\* An all_solutions() that stops after the first solution.
CollectOne(pb, s, out, fuel) ==
    LET t == next_solution(pb, s)
    IN  IF t.status # "ok" THEN [solutions |-> out, status |-> t.status]
        ELSE IF t.result.kind = "some"
             THEN [solutions |-> Append(out, t.result.solution), status |-> "ok"]
        ELSE [solutions |-> out, status |-> "ok"]

\* Iterator::collect over Iterator::next = next_solution().
RECURSIVE CollectFrom(_, _, _, _)
CollectFrom(pb, s, out, fuel) ==
    LET t == next_solution(pb, s)
    IN  IF t.status # "ok" THEN [solutions |-> out, status |-> t.status]
        ELSE IF t.result.kind # "some" THEN [solutions |-> out, status |-> "ok"]
        ELSE IF fuel = 0 THEN [solutions |-> out, status |-> "hang"]
        ELSE CollectFrom(pb, t, Append(out, t.result.solution), fuel - 1)

\* Solver::all_solutions
all_solutions(pb, s) == CollectFrom(pb, s, <<>>, LoopFuel)

\* The caller has the solver in hand: between two calls of its methods.
AtCaller == status = "ok" /\ result.kind \in {"fresh", "some", "none"}

(***************************************************************************)
(* The dense grid (DenseGridInner).  Rows and columns are 0-based; data is *)
(* the set of indices row * num_columns + column that hold true.           *)
(***************************************************************************)

to_index(row, column, num_columns) == row * num_columns + column

\* DenseGridInner::new
DenseNew(num_columns, coordinates) ==
    LET filled == {<<p[1] - 1, p[2] - 1>> : p \in coordinates}
    IN  [num_rows |-> IF filled = {} THEN 0 ELSE Max({p[1] : p \in filled}) + 1,
         num_columns |-> num_columns,
         covered_columns |-> {},
         covered_rows |-> {},
         data |-> {to_index(p[1], p[2], num_columns) : p \in filled},
         covers |-> <<>>,
         fail |-> "none"]

\* DenseGridInner::uncovered_columns
DenseUncoveredColumns(d) ==
    SortedSeq({column \in 0..(d.num_columns - 1) : column \notin d.covered_columns})

\* DenseGridInner::uncovered_rows_in_column
DenseUncoveredRowsInColumn(d, column) ==
    SortedSeq({row \in 0..(d.num_rows - 1) :
                 /\ row \notin d.covered_rows
                 /\ to_index(row, column, d.num_columns) \in d.data})

\* DenseGridInner::column_size
DenseColumnSize(d, column) ==
    Cardinality({row \in 0..(d.num_rows - 1) :
                   /\ row \notin d.covered_rows
                   /\ to_index(row, column, d.num_columns) \in d.data})

\* DenseGridInner::uncovered_columns_in_row
DenseUncoveredColumnsInRow(d, row) ==
    SortedSeq({column \in 0..(d.num_columns - 1) :
                 /\ column \notin d.covered_columns
                 /\ to_index(row, column, d.num_columns) \in d.data})

\* A DenseGridInner::cover that records every row with an entry in the
\* column, hidden already or not.
DenseCoverAllRows(d, column) ==
    IF d.fail # "none" THEN d
    ELSE IF column \in d.covered_columns THEN [d EXCEPT !.fail = "cover_assert"]
    ELSE LET rs == SortedSeq({row \in 0..(d.num_rows - 1) :
                                 to_index(row, column, d.num_columns) \in d.data})
         IN  [d EXCEPT !.covered_columns = @ \cup {column},
                       !.covered_rows = @ \cup Range(rs),
                       !.covers = Append(@, [column |-> column, rows |-> rs])]

\* DenseGridInner::cover
DenseCover(d, column) ==
    IF d.fail # "none" THEN d
    ELSE IF column \in d.covered_columns THEN [d EXCEPT !.fail = "cover_assert"]
    ELSE LET rs == DenseUncoveredRowsInColumn(d, column)
         IN  [d EXCEPT !.covered_columns = @ \cup {column},
                       !.covered_rows = @ \cup Range(rs),
                       !.covers = Append(@, [column |-> column, rows |-> rs])]

\* A DenseGridInner::uncover that does not compare its argument with the top
\* cover.
DenseUncoverAny(d, column) ==
    IF d.fail # "none" THEN d
    ELSE IF d.covers = <<>> THEN [d EXCEPT !.fail = "expect_none"]
    ELSE IF Last(d.covers).column \notin d.covered_columns
         THEN [d EXCEPT !.fail = "uncover_assert"]
    ELSE [d EXCEPT !.covered_columns = @ \ {Last(d.covers).column},
                   !.covered_rows = @ \ Range(Last(d.covers).rows),
                   !.covers = Front(@)]

\* DenseGridInner::uncover
DenseUncover(d, column) ==
    IF d.fail # "none" THEN d
    ELSE IF d.covers = <<>> THEN [d EXCEPT !.fail = "expect_none"]
    ELSE IF Last(d.covers).column # column THEN [d EXCEPT !.fail = "assert_eq_top"]
    ELSE IF Last(d.covers).column \notin d.covered_columns
         THEN [d EXCEPT !.fail = "uncover_assert"]
    ELSE [d EXCEPT !.covered_columns = @ \ {Last(d.covers).column},
                   !.covered_rows = @ \ Range(Last(d.covers).rows),
                   !.covers = Front(@)]

\* The dense grid of problem pb after covering the columns `cols` (1-based,
\* as the sparse grid numbers them) in order.
RECURSIVE DenseAfter(_, _)
DenseAfter(pb, cols) ==
    IF cols = <<>>
    THEN DenseNew(pb.nc, {<<p[1] + 1, p[2] + 1>> : p \in pb.satisfies})
    ELSE DenseCover(DenseAfter(pb, Front(cols)), Last(cols) - 1)

(***************************************************************************)
(* The solver driving the dense grid (Solver<E, DenseGrid>): the same code *)
(* of solver.rs over the Grid implementation of dense_grid.rs, where       *)
(* column_id and row_id return the 0-based column and row.                 *)
(***************************************************************************)
DensePopulate(pb) == DenseNew(pb.nc, {<<p[1] + 1, p[2] + 1>> : p \in pb.satisfies})

DenseSolutionTest(d, pb) ==
    LET cols == DenseUncoveredColumns(d)
    IN  ~\E i \in 1..Len(cols) : ~is_optional(pb, cols[i])

\* choose_column over the dense grid; -1 stands for the None that unwrap()
\* panics on.
DenseChooseColumn(d, pb) ==
    LET cols == DenseUncoveredColumns(d)
        mandatory == SelectSeq(cols, LAMBDA c : ~is_optional(pb, c))
        ok == {i \in 1..Len(mandatory) :
                 \A j \in 1..Len(mandatory) :
                     DenseColumnSize(d, mandatory[j]) >= DenseColumnSize(d, mandatory[i])}
    IN  IF mandatory = <<>> THEN -1 ELSE mandatory[Min(ok)]

DenseSelectRows(d, min_column) ==
    LET rs == DenseUncoveredRowsInColumn(d, min_column)
    IN  [i \in 1..Len(rs) |->
            [row |-> rs[i], columns |-> DenseUncoveredColumnsInRow(d, rs[i])]]

DenseNewFrames(d, pb) ==
    LET min_column == DenseChooseColumn(d, pb)
        selected_rows == DenseSelectRows(d, min_column)
    IN  IF selected_rows = <<>> THEN <<>>
        ELSE <<[min_column |-> min_column, selected_rows |-> selected_rows,
                state |-> "Cover"]>>

RECURSIVE DenseCoverAll(_, _)
DenseCoverAll(d, columns) ==
    IF columns = <<>> THEN d
    ELSE DenseCoverAll(DenseCover(d, columns[1]), Tail(columns))

RECURSIVE DenseUncoverAll(_, _)
DenseUncoverAll(d, columns) ==
    IF columns = <<>> THEN d
    ELSE DenseUncoverAll(DenseUncover(d, columns[1]), Tail(columns))

\* Solver::with_grid over the dense grid.
DenseWithGrid(pb) ==
    [grid |-> DensePopulate(pb),
     partial_solution |-> <<>>,
     stack |-> IF ~DenseSolutionTest(DensePopulate(pb), pb)
               THEN DenseNewFrames(DensePopulate(pb), pb) ELSE <<>>,
     status |-> "ok",
     result |-> [kind |-> "fresh", solution |-> <<>>]]

\* The Cover arm over the dense grid.  The returned solution indexes
\* possibilities() with each element: an element outside 0..np-1 panics.
DenseCoverArm(pb, s) ==
    LET frame == Last(s.stack)
        cand == frame.selected_rows[1]
        ps == Append(s.partial_solution, cand.row - 1)
        d == DenseCoverAll(s.grid, cand.columns)
        done == [frame EXCEPT !.state = "Uncover"]
        base == [grid |-> d, partial_solution |-> ps, stack |-> s.stack, status |-> "ok",
                 result |-> [kind |-> "pending", solution |-> <<>>]]
    IN  IF cand.row = 0 /\ pb.debug THEN [base EXCEPT !.status = "sub_overflow", !.grid = s.grid]
        ELSE IF d.fail # "none" THEN [base EXCEPT !.status = d.fail]
        ELSE IF DenseSolutionTest(d, pb)
             THEN IF \E i \in 1..Len(ps) : ps[i] \notin 0..(pb.np - 1)
                  THEN [base EXCEPT !.status = "index_out_of_bounds"]
                  ELSE [base EXCEPT !.stack = Front(s.stack) \o <<done>>,
                                    !.result = [kind |-> "some", solution |-> ps]]
        ELSE [base EXCEPT !.stack = Front(s.stack) \o <<done>> \o DenseNewFrames(d, pb)]

\* The Uncover arm over the dense grid.
DenseUncoverArm(pb, s) ==
    LET frame == Last(s.stack)
        cand == frame.selected_rows[1]
        rest == Tail(frame.selected_rows)
        d == DenseUncoverAll(s.grid, UncoverOrder(cand.columns))
        popped == IF pb.debug THEN Front(s.partial_solution) ELSE s.partial_solution
        base == [grid |-> d, partial_solution |-> popped, stack |-> s.stack, status |-> "ok",
                 result |-> [kind |-> "pending", solution |-> <<>>]]
    IN  IF d.fail # "none" THEN [base EXCEPT !.status = d.fail,
                                             !.partial_solution = s.partial_solution]
        ELSE IF pb.debug /\ (s.partial_solution = <<>> \/ Last(s.partial_solution) # cand.row - 1)
             THEN [base EXCEPT !.status = "debug_assert_eq"]
        ELSE IF rest = <<>> THEN [base EXCEPT !.stack = Front(s.stack)]
        ELSE [base EXCEPT !.stack = Front(s.stack) \o
                              <<[frame EXCEPT !.selected_rows = rest, !.state = "Cover"]>>]

RECURSIVE DenseNextSolutionFrom(_, _, _)
DenseNextSolutionFrom(pb, s, fuel) ==
    IF s.status # "ok" THEN s
    ELSE IF s.stack = <<>> THEN [s EXCEPT !.result = [kind |-> "none", solution |-> <<>>]]
    ELSE IF fuel = 0 THEN [s EXCEPT !.status = "hang"]
    ELSE LET t == IF Last(s.stack).state = "Cover" THEN DenseCoverArm(pb, s)
                  ELSE DenseUncoverArm(pb, s)
         IN  IF t.status # "ok" \/ t.result.kind = "some" THEN t
             ELSE DenseNextSolutionFrom(pb, t, fuel - 1)

RECURSIVE DenseCollectFrom(_, _, _, _)
DenseCollectFrom(pb, s, out, fuel) ==
    LET t == DenseNextSolutionFrom(pb, s, LoopFuel)
    IN  IF t.status # "ok" THEN [solutions |-> out, status |-> t.status]
        ELSE IF t.result.kind # "some" THEN [solutions |-> out, status |-> "ok"]
        ELSE IF fuel = 0 THEN [solutions |-> out, status |-> "hang"]
        ELSE DenseCollectFrom(pb, t, Append(out, t.result.solution), fuel - 1)

\* all_solutions() of a freshly constructed solver over the dense grid.
DenseAllSolutions(pb) == DenseCollectFrom(pb, DenseWithGrid(pb), <<>>, LoopFuel)

(***************************************************************************)
(* util.rs: the nested ranges, the first component outermost.              *)
(***************************************************************************)
three_combination_iter(limits, start) ==
    LET n1 == Max({limits[1] - start[1], 0})
        n2 == Max({limits[2] - start[2], 0})
        n3 == Max({limits[3] - start[3], 0})
    IN  [i \in 1..(n1 * n2 * n3) |->
            <<start[1] + ((i - 1) \div (n2 * n3)),
              start[2] + (((i - 1) \div n3) % n2),
              start[3] + ((i - 1) % n3)>>]

two_combination_iter(limits, start) ==
    LET n1 == Max({limits[1] - start[1], 0})
        n2 == Max({limits[2] - start[2], 0})
    IN  [i \in 1..(n1 * n2) |->
            <<start[1] + ((i - 1) \div n2), start[2] + ((i - 1) % n2)>>]

(***************************************************************************)
(* latin_square.rs.  A Possibility is [row, column, value]; a Constraint   *)
(* is <<"RowNumber", row, value>>, <<"ColumnNumber", column, value>> or    *)
(* <<"RowColumn", row, column>>.                                           *)
(***************************************************************************)
\* Possibility::all
PossibilityAll(side_length) ==
    LET it == three_combination_iter(<<side_length, side_length, side_length + 1>>,
                                     <<0, 0, 1>>)
    IN  [i \in 1..Len(it) |-> [row |-> it[i][2], column |-> it[i][1], value |-> it[i][3]]]

\* Possibility::satisfied_constraints
satisfied_constraints(poss) ==
    <<<<"RowNumber", poss.row, poss.value>>,
      <<"ColumnNumber", poss.column, poss.value>>,
      <<"RowColumn", poss.row, poss.column>>>>

\* Possibility::satisfies
PossibilitySatisfies(poss, constraint) ==
    IF constraint[1] = "RowNumber"
    THEN poss.row = constraint[2] /\ poss.value = constraint[3]
    ELSE IF constraint[1] = "ColumnNumber"
    THEN poss.column = constraint[2] /\ poss.value = constraint[3]
    ELSE poss.row = constraint[2] /\ poss.column = constraint[3]

\* Constraint::all
ConstraintAll(side_length) ==
    LET rn == two_combination_iter(<<side_length, side_length + 1>>, <<0, 1>>)
        rc == two_combination_iter(<<side_length, side_length>>, <<0, 0>>)
    IN  [i \in 1..Len(rn) |-> <<"RowNumber", rn[i][1], rn[i][2]>>]
        \o [i \in 1..Len(rn) |-> <<"ColumnNumber", rn[i][1], rn[i][2]>>]
        \o [i \in 1..Len(rc) |-> <<"RowColumn", rc[i][1], rc[i][2]>>]

\* LatinSquare::new that keeps the possibilities of the filled cells.
LatinPossibilitiesUnfiltered(side_length, filled_values) == PossibilityAll(side_length)

\* LatinSquare::new, the possibilities: those outside the filled cells.
LatinPossibilities(side_length, filled_values) ==
    LET filled_coordinates == {<<filled_values[i].row, filled_values[i].column>> :
                                  i \in 1..Len(filled_values)}
    IN  SelectSeq(PossibilityAll(side_length),
                  LAMBDA poss : <<poss.row, poss.column>> \notin filled_coordinates)

\* LatinSquare::new, the constraints: those no filled value satisfies.
LatinConstraints(side_length, filled_values) ==
    LET satisfied == UNION {Range(satisfied_constraints(filled_values[i])) :
                               i \in 1..Len(filled_values)}
    IN  SelectSeq(ConstraintAll(side_length), LAMBDA cons : cons \notin satisfied)

\* LatinSquare::new with the ExactCover implementation beside it: the
\* problem the solver is built on.  new_ok is FALSE when the debug
\* assertion on the values fails.
LatinSquareNew(side_length, filled_values, debug) ==
    LET possibilities == LatinPossibilities(side_length, filled_values)
        constraints == LatinConstraints(side_length, filled_values)
    IN  [np |-> Len(possibilities), nc |-> Len(constraints),
         satisfies |-> {q \in (0..(Len(possibilities) - 1)) \X (0..(Len(constraints) - 1)) :
                          PossibilitySatisfies(possibilities[q[1] + 1], constraints[q[2] + 1])},
         optional |-> {}, debug |-> debug,
         side_length |-> side_length,
         possibilities |-> possibilities, constraints |-> constraints,
         filled_values |-> filled_values,
         new_ok |-> ~debug \/ \A i \in 1..Len(filled_values) :
                        0 < filled_values[i].value /\ filled_values[i].value <= side_length]

\* The filled values a caller passes: cells of the square, and values of the
\* square or the first value out of range.
FillValues(side_length) ==
    [row : 0..(side_length - 1), column : 0..(side_length - 1), value : 1..(side_length + 1)]

SeqsUpTo(S, n) == UNION {[1..k -> S] : k \in 0..n}

LatinSquares ==
    UNION {{LatinSquareNew(side, fills, debug) :
              fills \in SeqsUpTo(FillValues(side), MaxFills), debug \in BOOLEAN} :
           side \in 1..MaxSide}

\* square.solver(): Solver::new on the square, unless new() has panicked.
InitLatin ==
    \E pb \in LatinSquares :
        /\ problem = pb
        /\ grid = populate_grid(pb)
        /\ partial_solution = <<>>
        /\ stack = IF pb.new_ok THEN ResetStack(pb) ELSE <<>>
        /\ status = IF pb.new_ok THEN "ok" ELSE "debug_assert"
        /\ result = [kind |-> "fresh", solution |-> <<>>]
        /\ emitted = <<>>
        /\ calls = <<>>
        /\ last = [op |-> "new", before |-> populate_grid(pb), saved |-> populate_grid(pb),
                   lifo |-> TRUE]
        /\ coverStack = <<>>
        /\ snapshots = <<>>

SpecLatin == InitLatin /\ [][Next]_vars

\* The possibilities a returned solution refers to.
Possibilities(solution) == [k \in 1..Len(solution) |-> problem.possibilities[solution[k] + 1]]

FilledCells == {<<problem.filled_values[i].row, problem.filled_values[i].column>> :
                   i \in 1..Len(problem.filled_values)}

(***************************************************************************)
(* queens.rs.  A Possibility is [row, column]; a Constraint is             *)
(* <<"Row", index>>, <<"Column", index>>, <<"LeadingDiagonal", index>> or  *)
(* <<"TrailingDiagonal", index>>.                                          *)
(***************************************************************************)
\* queens::Possibility::all
QueensPossibilityAll(side_length) ==
    LET it == two_combination_iter(<<side_length, side_length>>, <<0, 0>>)
    IN  [i \in 1..Len(it) |-> [row |-> it[i][2], column |-> it[i][1]]]

leading_diagonal(poss, side_length) == (poss.column - poss.row) + (side_length - 1)

trailing_diagonal(poss) == poss.row + poss.column

\* queens::Possibility::satisfied_constraints
queens_satisfied_constraints(poss, side_length) ==
    <<<<"Row", poss.row>>, <<"Column", poss.column>>,
      <<"LeadingDiagonal", leading_diagonal(poss, side_length)>>,
      <<"TrailingDiagonal", trailing_diagonal(poss)>>>>

\* queens::Constraint::all
QueensConstraintAll(side_length) ==
    [i \in 1..side_length |-> <<"Row", i - 1>>]
    \o [i \in 1..side_length |-> <<"Column", i - 1>>]
    \o [i \in 1..(2 * side_length - 1) |-> <<"LeadingDiagonal", i - 1>>]
    \o [i \in 1..(2 * side_length - 1) |-> <<"TrailingDiagonal", i - 1>>]

\* impl ExactCover for NQueens: satisfies
QueensSatisfies(side_length, poss, cons) ==
    IF cons[1] = "Row" THEN poss.row = cons[2]
    ELSE IF cons[1] = "Column" THEN poss.column = cons[2]
    ELSE IF cons[1] = "LeadingDiagonal" THEN leading_diagonal(poss, side_length) = cons[2]
    ELSE trailing_diagonal(poss) = cons[2]

\* impl ExactCover for NQueens: is_optional
QueensIsOptional(cons) == cons[1] \in {"LeadingDiagonal", "TrailingDiagonal"}

\* NQueens::new with the ExactCover implementation beside it.
NQueensNew(side_length, filled_values, debug) ==
    LET satisfied == UNION {Range(queens_satisfied_constraints(filled_values[i], side_length)) :
                               i \in 1..Len(filled_values)}
        filled_coordinates == {<<filled_values[i].row, filled_values[i].column>> :
                                  i \in 1..Len(filled_values)}
        possibilities == SelectSeq(QueensPossibilityAll(side_length),
                             LAMBDA poss : <<poss.row, poss.column>> \notin filled_coordinates)
        constraints == SelectSeq(QueensConstraintAll(side_length),
                                 LAMBDA cons : cons \notin satisfied)
    IN  [np |-> Len(possibilities), nc |-> Len(constraints),
         satisfies |-> {q \in (0..(Len(possibilities) - 1)) \X (0..(Len(constraints) - 1)) :
                          QueensSatisfies(side_length, possibilities[q[1] + 1],
                                          constraints[q[2] + 1])},
         optional |-> {c \in 0..(Len(constraints) - 1) : QueensIsOptional(constraints[c + 1])},
         debug |-> debug,
         side_length |-> side_length,
         possibilities |-> possibilities, constraints |-> constraints,
         filled_values |-> filled_values]

\* The boards with no queen placed beforehand.
EmptyBoards ==
    {NQueensNew(side, <<>>, debug) : side \in 1..MaxBoard, debug \in BOOLEAN}

InitQueens == \E pb \in EmptyBoards : StartOn(pb)

SpecQueens == InitQueens /\ [][Next]_vars

(***************************************************************************)
(* Grid::new called directly with a list of coordinates, then covers and   *)
(* LIFO uncovers as in the tests of grid.rs.                               *)
(***************************************************************************)
NewInputs ==
    UNION {[nc : {n},
            coordinates : SeqsUpTo((0..NewRows) \X (0..(n + 1)), NewLen),
            debug : BOOLEAN,
            np : {NewRows}, satisfies : {{}}, optional : {{}}] : n \in 0..NewCols}

InitNew ==
    \E pb \in NewInputs :
        LET g == GridNew(pb.nc, pb.coordinates, pb.debug)
        IN  /\ problem = pb
            /\ grid = g
            /\ partial_solution = <<>>
            /\ stack = <<>>
            /\ status = IF g.fail = "none" THEN "ok" ELSE g.fail
            /\ result = [kind |-> "fresh", solution |-> <<>>]
            /\ emitted = <<>>
            /\ calls = <<>>
            /\ last = [op |-> "new", before |-> g, saved |-> g, lifo |-> TRUE]
            /\ coverStack = <<>>
            /\ snapshots = <<>>

SpecNew == InitNew /\ [][NextGrid]_vars

(***************************************************************************)
(* Exact covers of the problem at hand.                                    *)
(***************************************************************************)
\* The number of entries of the returned solution that satisfy constraint c.
CountSat(sol, c) ==
    Cardinality({i \in 1..Len(sol) : <<sol[i], c>> \in problem.satisfies})

IsCover(sol) ==
    \A c \in 0..(problem.nc - 1) :
        IF c \in problem.optional THEN CountSat(sol, c) <= 1 ELSE CountSat(sol, c) = 1

SetSat(S, c) == Cardinality({p \in S : <<p, c>> \in problem.satisfies})

IsExactCover(S) ==
    \A c \in 0..(problem.nc - 1) :
        IF c \in problem.optional THEN SetSat(S, c) <= 1 ELSE SetSat(S, c) = 1

ExactCovers == {S \in SUBSET (0..(problem.np - 1)) : IsExactCover(S)}

Emitted == {Range(emitted[i]) : i \in 1..Len(emitted)}

\* The root's right-walk of g lists exactly the uncovered columns, ascending.
RootWalk(g) ==
    uncovered_columns(g) = SortedSeq({c \in 1..problem.nc : ~g.is_covered[c]})

\* The nodes and headers not spliced out: a header is spliced out while its
\* column is covered, a node while another column of its row is covered.
Coords == {<<p[1] + 1, p[2] + 1>> : p \in problem.satisfies}

SplicedOut(g, x) ==
    IF x[1] = 0 THEN g.is_covered[x[2]]
    ELSE \E q \in Coords : q[1] = x[1] /\ q[2] # x[2] /\ g.is_covered[q[2]]

Live(g) == {x \in DOMAIN g.left : ~SplicedOut(g, x)}

(***************************************************************************)
(* Properties.                                                             *)
(***************************************************************************)
\* C1: every solution next_solution() returns is an exact cover: each
\* mandatory constraint is satisfied by exactly one of its possibilities and
\* each optional constraint by at most one.
C1_Soundness == result.kind = "some" => IsCover(result.solution)

\* C2: when draining the solver ends (next_solution() returns None), every
\* set of possibilities that is an exact cover has been emitted.
C2_Completeness == result.kind = "none" => ExactCovers \subseteq Emitted

\* C3: if the first next_solution() call after new()/reset() returns None,
\* the problem has no exact cover.
C3_FirstNone == (result.kind = "none" /\ emitted = <<>>) => ExactCovers = {}

\* C4: on the grid used directly, an uncover that undoes the most recent
\* cover leaves every link, every size and every is_covered flag as it was
\* just before that cover (so any covers undone in reverse order do).
C4_RoundTrip == last.op = "grid_uncover" => grid = last.saved

\* A nested round trip: the column uncovered has a row with other nodes, and
\* an earlier cover is still in place.
C4_Witness ==
    /\ last.op = "grid_uncover"
    /\ status = "ok"
    /\ coverStack # <<>>
    /\ grid # last.before
    /\ \E n \in Range(rows(grid, calls[1].column)) : neighbors(grid, n) # <<>>

\* C5: every uncover call of an Uncover step is of the column covered most
\* recently among those still covered (the reverse of the cover order).
C5_Lifo == last.op = "uncover" => last.lifo

\* C6: after the Uncover step of a candidate the grid equals the grid just
\* before that candidate's Cover step.
C6_Restored == (last.op = "uncover" /\ status = "ok") => grid = last.saved

\* C7: between the steps of the solver every column's size is the number of
\* nodes met walking down from its header.
C7_SizeInv ==
    status = "ok" => \A c \in 1..problem.nc : grid.size[c] = Len(rows(grid, c))

\* C8: between the steps of the solver every node or header that is not
\* spliced out is the right of its left, the left of its right, the down of
\* its up and the up of its down, and each walk from it returns to it.
C8_LinkInv ==
    status = "ok" =>
        \A x \in Live(grid) :
            /\ grid.right[grid.left[x]] = x
            /\ grid.left[grid.right[x]] = x
            /\ grid.down[grid.up[x]] = x
            /\ grid.up[grid.down[x]] = x
            /\ \A d \in {"left", "right", "up", "down"} :
                   Diverge \notin Range(Walk(grid, d, x, x))

\* C9: after every completed cover or uncover call of a solver step, the
\* walk right from the root visits exactly the uncovered columns, ascending.
C9_RootWalk ==
    \A k \in 0..Len(calls) :
        LET g == GridAfter(last.before, calls, k, problem.debug)
        IN  g.fail = "none" => RootWalk(g)

\* C10: no run of new(), next_solution() and reset() fails at runtime.
C10_NoFailure == status = "ok"

\* C11: a drain ends with None: as long as next_solution() has not returned
\* None its loop can take the next Cover/Uncover step or return (the process
\* has not stopped with frames left on the stack).
C11_Termination == result.kind # "none" => status = "ok"

\* C12: the candidates of every frame are in ascending possibility index,
\* and the k-th element of a returned solution is the candidate in hand at
\* depth k of the stack.
C12_Order ==
    /\ \A i \in 1..Len(stack) :
           \A a, b \in 1..Len(stack[i].selected_rows) :
               a < b => stack[i].selected_rows[a].row < stack[i].selected_rows[b].row
    /\ result.kind = "some" =>
           /\ Len(result.solution) = Len(stack)
           /\ \A k \in 1..Len(stack) :
                  result.solution[k] = stack[k].selected_rows[1].row - 1

\* C13: whatever calls were made before (none, some, or a full drain),
\* reset() followed by all_solutions() returns what all_solutions() returns
\* on a freshly constructed solver for the same problem.
C13_ResetAll ==
    AtCaller =>
        all_solutions(problem, reset(problem, Cur)) = all_solutions(problem, with_grid(problem))

\* reset() is called in the middle of a drain, with a candidate in hand, and
\* the problem has solutions left to compare.
C13_Witness ==
    /\ AtCaller
    /\ result.kind = "some"
    /\ stack # <<>>
    /\ partial_solution # <<>>
    /\ Len(all_solutions(problem, with_grid(problem)).solutions) >= 2

\* C14: all_solutions() returns, in order, what repeated next_solution()
\* calls return: the solutions handed out call by call so far, followed by
\* what all_solutions() collects from here, are what all_solutions() collects
\* from the freshly constructed solver.
C14_AllIsDrain ==
    AtCaller =>
        /\ emitted \o all_solutions(problem, Cur).solutions
             = all_solutions(problem, with_grid(problem)).solutions
        /\ result.kind = "none" =>
             emitted = all_solutions(problem, with_grid(problem)).solutions

\* Two solutions were handed out call by call and the drain has ended.
C14_Witness ==
    /\ result.kind = "none"
    /\ status = "ok"
    /\ Len(emitted) >= 2

\* The mandatory columns of the header list of g.
MandatoryUncovered(g) ==
    {d \in Range(uncovered_columns(g)) : ~is_optional(problem, column_id(d))}

\* C15: whenever a mandatory column is uncovered, choose_column returns a
\* mandatory column of the header list, no mandatory column of the list has
\* a smaller size, and no mandatory column of the same size comes before it
\* in the walk right from the root.
C15_MRV ==
    (status = "ok" /\ ~solution_test(grid, problem)) =>
        LET cols == uncovered_columns(grid)
            c == choose_column(grid, problem)
        IN  /\ c \in MandatoryUncovered(grid)
            /\ \A d \in MandatoryUncovered(grid) :
                   /\ ~ULess(column_size(grid, d), column_size(grid, c))
                   /\ column_size(grid, d) = column_size(grid, c)
                          => IndexOf(cols, c) <= IndexOf(cols, d)

\* reset() has pushed a frame for the column chosen: two mandatory columns
\* tie for the smallest size and an uncovered optional column is smaller than
\* both.
C15_Witness ==
    /\ status = "ok"
    /\ ~solution_test(grid, problem)
    /\ stack # <<>>
    /\ Last(stack).state = "Cover"
    /\ Last(stack).min_column = choose_column(grid, problem)
    /\ \E d \in MandatoryUncovered(grid) \ {choose_column(grid, problem)} :
           column_size(grid, d) = column_size(grid, choose_column(grid, problem))
    /\ \E o \in Range(uncovered_columns(grid)) \ MandatoryUncovered(grid) :
           column_size(grid, o) < column_size(grid, choose_column(grid, problem))

\* No mandatory column of g has its is_covered flag false.
NoMandatoryLeft(g) ==
    \A c \in 1..problem.nc : is_optional(problem, column_id(c)) \/ g.is_covered[c]

\* C16: a solution is in the caller's hand exactly when the grid has no
\* uncovered mandatory column.
C16_EmitIff == status = "ok" => (result.kind = "some" <=> NoMandatoryLeft(grid))

\* Some mandatory constraint is satisfied by no possibility.
DeadConstraint ==
    \E c \in 0..(problem.nc - 1) :
        /\ ~is_optional(problem, c)
        /\ ~\E p \in 0..(problem.np - 1) : <<p, c>> \in problem.satisfies

\* C17: on a problem without an exact cover the solver does not fail and
\* emits nothing; when some mandatory constraint is satisfied by no
\* possibility no frame is ever on the stack.
C17_Unsolvable ==
    /\ ExactCovers = {} => (status = "ok" /\ emitted = <<>>)
    /\ DeadConstraint => stack = <<>>

\* C18: in every grid state reached by proper use, a misuse fails an
\* assertion: cover of a covered column and uncover of an uncovered column
\* on the sparse grid; on the dense grid cover of a covered column and
\* uncover of any column but the one covered last.
C18_Misuse ==
    status = "ok" =>
        \A c \in 1..problem.nc :
            /\ grid.is_covered[c] => Cover(grid, c, problem.debug).fail = "cover_assert"
            /\ ~grid.is_covered[c] => Uncover(grid, c).fail = "uncover_assert"
            /\ c \in Range(coverStack) =>
                   DenseCover(DenseAfter(problem, coverStack), c - 1).fail = "cover_assert"
            /\ (coverStack = <<>> \/ Last(coverStack) # c) =>
                   DenseUncover(DenseAfter(problem, coverStack), c - 1).fail # "none"

\* Two columns are covered and one is not: each kind of misuse is possible.
C18_Witness ==
    /\ status = "ok"
    /\ Len(coverStack) >= 2
    /\ \E c \in 1..problem.nc : ~grid.is_covered[c]
    /\ DenseAfter(problem, coverStack).fail = "none"
    /\ DenseAfter(problem, coverStack).covered_columns = {c - 1 : c \in Range(coverStack)}

\* C19: a cover(col) by a direct caller takes col out of the header list and
\* leaves, in every column still in the list, the rows it had before minus
\* the rows that were listed in col, in the same order; the dense view keeps
\* exactly the entries of the other listed columns outside those rows.
C19_CoverEffect ==
    (last.op = "grid_cover" /\ status = "ok") =>
        LET c == calls[1].column
            b == last.before
            gone == Range(row_indices(b, c))
        IN  /\ uncovered_columns(grid) = SelectSeq(uncovered_columns(b), LAMBDA d : d # c)
            /\ \A d \in Range(uncovered_columns(grid)) :
                   row_indices(grid, d) = SelectSeq(row_indices(b, d), LAMBDA r : r \notin gone)
            /\ to_dense(grid) = {p \in to_dense(b) : p[2] # c /\ p[1] \notin gone}
            /\ \A p \in to_dense(grid) : p[1] \notin gone

\* The second of two covers takes a row out of a column that keeps another
\* row.
C19_Witness ==
    /\ last.op = "grid_cover"
    /\ status = "ok"
    /\ Len(coverStack) >= 2
    /\ \E d \in Range(uncovered_columns(grid)) :
           /\ row_indices(grid, d) # <<>>
           /\ row_indices(grid, d) # row_indices(last.before, d)

\* C20: when the drain of the solver over the sparse grid has ended, the
\* solver over the dense grid, run on the same problem, has failed no
\* assertion and has returned the same solutions in the same order.
C20_DenseSame ==
    (result.kind = "none" /\ status = "ok") =>
        /\ DenseAllSolutions(problem).status = "ok"
        /\ DenseAllSolutions(problem).solutions = emitted

\* C21 (as stated): every solution the solver emits for a Latin square
\* contains every filled value of the square.
C21_ContainsFills ==
    \A k \in 1..Len(emitted) :
        Range(problem.filled_values) \subseteq Range(Possibilities(emitted[k]))

\* C21 (amended): no solution the solver emits for a Latin square holds a
\* possibility in the cell of a filled value: the filled values stay in
\* filled_values and the solutions are made of the other cells only.
C21_FillsApart ==
    \A k \in 1..Len(emitted) :
        \A i \in 1..Len(emitted[k]) :
            /\ emitted[k][i] \in 0..(problem.np - 1)
            /\ <<Possibilities(emitted[k])[i].row, Possibilities(emitted[k])[i].column>>
                   \notin FilledCells

C21_Witness ==
    /\ emitted # <<>>
    /\ problem.filled_values # <<>>
    /\ problem.side_length = MaxSide

\* The cells a returned solution and the filled values give together.
Completed(solution) == Range(Possibilities(solution)) \cup Range(problem.filled_values)

IsLatinSquare(cells, side_length) ==
    /\ \A r, c \in 0..(side_length - 1) :
           Cardinality({p \in cells : p.row = r /\ p.column = c}) = 1
    /\ \A p \in cells : p.value \in 1..side_length
    /\ \A p, q \in cells :
           (p # q /\ p.value = q.value) => (p.row # q.row /\ p.column # q.column)

\* C22: when every filled value is in range, every solution the solver
\* emits is, together with the filled values, a valid Latin square: one
\* value in every cell, no value twice in a row or twice in a column.
C22_ValidSquare ==
    (\A i \in 1..Len(problem.filled_values) :
         problem.filled_values[i].value \in 1..problem.side_length)
    => \A k \in 1..Len(emitted) : IsLatinSquare(Completed(emitted[k]), problem.side_length)

\* Possibility { row, column, value }
P(row, column, value) == [row |-> row, column |-> column, value |-> value]

\* C24: once the solver has returned None, the empty 2x2 square has emitted
\* exactly the two solutions {(0,0,1),(0,1,2),(1,0,2),(1,1,1)} and
\* {(0,0,2),(0,1,1),(1,0,1),(1,1,2)}, in that order, and the 2x2 square
\* with the fills (0,0,1),(0,1,2) exactly the solution [(1,0,2),(1,1,1)].
C24_SmallSquares ==
    (result.kind = "none" /\ problem.side_length = 2) =>
        /\ problem.filled_values = <<>> =>
               /\ Len(emitted) = 2
               /\ \A k \in 1..Len(emitted) : Len(emitted[k]) = 4
               /\ Range(Possibilities(emitted[1])) =
                      {P(0, 0, 1), P(0, 1, 2), P(1, 0, 2), P(1, 1, 1)}
               /\ Range(Possibilities(emitted[2])) =
                      {P(0, 0, 2), P(0, 1, 1), P(1, 0, 1), P(1, 1, 2)}
        /\ problem.filled_values = <<P(0, 0, 1), P(0, 1, 2)>> =>
               /\ Len(emitted) = 1
               /\ Possibilities(emitted[1]) = <<P(1, 0, 2), P(1, 1, 1)>>

\* Queen { row, column }
Q(row, column) == [row |-> row, column |-> column]

\* The placements of n queens on the n x n board with one queen in every
\* row and every column and at most one on every diagonal.
Placements(n) ==
    {S \in SUBSET [row : 0..(n - 1), column : 0..(n - 1)] :
        /\ Cardinality(S) = n
        /\ \A i \in 0..(n - 1) : /\ \E q \in S : q.row = i
                                 /\ \E q \in S : q.column = i
        /\ \A q, r \in S : q # r => /\ q.row - q.column # r.row - r.column
                                    /\ q.row + q.column # r.row + r.column}

\* C23: once the solver has returned None on the board of side n with no
\* queen placed beforehand, it has emitted exactly the placements of n
\* queens, each once with n entries: one for n = 1, none for n = 2 and 3,
\* and for n = 4 {(0,1),(1,3),(2,0),(3,2)}, then {(0,2),(1,0),(2,3),(3,1)}.
C23_Queens ==
    result.kind = "none" =>
        LET n == problem.side_length
            sets == [k \in 1..Len(emitted) |-> Range(Possibilities(emitted[k]))]
        IN  /\ \A k \in 1..Len(emitted) : Len(emitted[k]) = n
            /\ Range(sets) = Placements(n)
            /\ Len(sets) = Cardinality(Placements(n))
            /\ n = 1 => sets = <<{Q(0, 0)}>>
            /\ n \in {2, 3} => sets = <<>>
            /\ n = 4 => sets = <<{Q(0, 1), Q(1, 3), Q(2, 0), Q(3, 2)},
                                 {Q(0, 2), Q(1, 0), Q(2, 3), Q(3, 1)}>>

\* C25: every Uncover step that completes removes exactly the last entry of
\* the partial solution, and that entry is the uncovered candidate's row
\* index minus one, in debug and in release builds alike; so a solution in
\* the caller's hands has one entry per frame, none of an uncovered
\* candidate.
C25_UncoverPops ==
    [][/\ (/\ status = "ok" /\ stack # <<>> /\ Last(stack).state = "Uncover"
            /\ last'.op = "uncover" /\ status' = "ok")
           => /\ partial_solution # <<>>
              /\ partial_solution' = Front(partial_solution)
              /\ Last(partial_solution) = Last(stack).selected_rows[1].row - 1
       /\ (result'.kind = "some" /\ status' = "ok")
           => /\ Len(result'.solution) = Len(stack')
              /\ \A k \in 1..Len(stack') :
                     result'.solution[k] = stack'[k].selected_rows[1].row - 1]_vars

\* C26: between two steps of the state machine the partial solution holds
\* exactly one possibility index per frame on the stack.  A frame pushed in
\* state Cover has no candidate selected yet, so the lengths are compared
\* when no frame waits in state Cover: then the length of the partial
\* solution is the depth of the stack.
C26_OnePerFrame ==
    (status = "ok" /\ \A i \in 1..Len(stack) : stack[i].state = "Uncover")
    => Len(partial_solution) = Len(stack)

\* The frames of the stack in state Uncover.
UncoverFrames == {i \in 1..Len(stack) : stack[i].state = "Uncover"}

\* C27: between two steps every frame below the top is in state Uncover
\* (only the top frame can be in state Cover), every frame has a candidate
\* left, the partial solution is as long as there are frames in state
\* Uncover, and when a solution is returned every frame is in state Uncover.
C27_StackDiscipline ==
    status = "ok" =>
        /\ \A i \in 1..(Len(stack) - 1) : stack[i].state = "Uncover"
        /\ \A i \in 1..Len(stack) : stack[i].selected_rows # <<>>
        /\ Len(partial_solution) = Cardinality(UncoverFrames)
        /\ result.kind = "some" => UncoverFrames = 1..Len(stack)

\* C28: cover(col) leaves col's own vertical list and col's size as they
\* were: the header and the nodes of col keep their up and down links, so
\* the rows of the covered column are still enumerated from its header,
\* while the other nodes of those rows are gone from every other column.
C28_OwnColumnKept ==
    (last.op = "grid_cover" /\ status = "ok") =>
        LET c == calls[1].column
            b == last.before
            own == Range(rows(b, c))
        IN  /\ grid.size[c] = b.size[c]
            /\ rows(grid, c) = rows(b, c)
            /\ \A x \in own \cup {<<0, c>>} : /\ grid.up[x] = b.up[x]
                                              /\ grid.down[x] = b.down[x]
            /\ \A d \in (1..problem.nc) \ {c} :
                   rows(grid, d) =
                       SelectSeq(rows(b, d), LAMBDA m : ~\E n \in own : n[1] = m[1])

C28_Witness ==
    /\ last.op = "grid_cover"
    /\ status = "ok"
    /\ Len(rows(grid, calls[1].column)) >= 2
    /\ \E d \in (1..problem.nc) \ {calls[1].column} :
           /\ rows(grid, d) # rows(last.before, d)
           /\ rows(grid, d) # <<>>

\* C29: cover and uncover never change the left or the right link of a
\* node that is not a header: in every grid state reached, every row's
\* circular horizontal list is the one Grid::new built.
C29_RowsKept ==
    \A x \in DOMAIN grid.left :
        x[1] # 0 => /\ grid.left[x] = populate_grid(problem).left[x]
                    /\ grid.right[x] = populate_grid(problem).right[x]
                    /\ Walk(grid, "right", x, x) = Walk(populate_grid(problem), "right", x, x)

C29_Witness ==
    /\ last.op = "grid_uncover"
    /\ Len(coverStack) >= 1
    /\ status = "ok"
    /\ \E x \in DOMAIN grid.left :
           /\ x[1] # 0
           /\ Len(Walk(grid, "right", x, x)) >= 2
           /\ grid.is_covered[x[2]]
           /\ x \notin Range(rows(grid, grid.right[x][2]))

\* C30: an uncover(col) relinks the header and the nodes in exactly the
\* reverse of the order in which the matching cover(col) unlinked them:
\* cover takes the header first, then col's rows downward and each row
\* rightward; uncover takes col's rows upward and each row leftward, and
\* the header last.
C30_ReverseOrder ==
    (last.op = "grid_uncover" /\ status = "ok") =>
        LET c == calls[1].column
        IN  /\ UncoverTrace(last.before, c) = Reverse(CoverTrace(last.saved, c, problem.debug))
            /\ Last(UncoverTrace(last.before, c)) = <<0, c>>
            /\ CoverTrace(last.saved, c, problem.debug)[1] = <<0, c>>

C30_Witness ==
    /\ last.op = "grid_uncover"
    /\ status = "ok"
    /\ Len(rows(last.before, calls[1].column)) >= 2
    /\ Len(UncoverTrace(last.before, calls[1].column)) >= 4
    /\ \E i \in 1..Len(rows(last.before, calls[1].column)) :
           Len(Walk(last.before, "right", rows(last.before, calls[1].column)[i],
                    rows(last.before, calls[1].column)[i])) >= 2

\* The coordinates Grid::new was given, as a set, and the nodes it built.
GivenCoords == Range(problem.coordinates)

NodesOf(g) == {x \in DOMAIN g.left : Len(x) = 3}

\* The coordinates are the ones of an incidence matrix: rows from 1, columns
\* in 1..num_columns, every cell listed once.
IncidenceCoords ==
    /\ \A p \in GivenCoords : p[1] >= 1 /\ p[2] \in 1..problem.nc
    /\ Cardinality(GivenCoords) = Len(problem.coordinates)

C32_IsEmpty ==
    status = "ok" =>
        /\ grid_is_empty(grid) <=> (\A c \in 1..problem.nc : grid.is_covered[c])
        /\ grid_is_empty(grid) <=> (Len(coverStack) = problem.nc)
        /\ (problem.nc = 0 /\ last.op = "new") => grid_is_empty(grid)
        /\ (last.op = "grid_uncover") => ~grid_is_empty(grid)

C32_Witness ==
    /\ status = "ok"
    /\ problem.nc = 2
    /\ problem.coordinates = <<<<1, 2>>, <<2, 2>>>>
    /\ coverStack = <<2>>
    /\ last.op = "grid_uncover"
    /\ grid.size[1] = 0
    /\ ~grid_is_empty(grid)
    /\ grid_is_empty(last.before)

\* C33: Column::is_empty returns true exactly when the column has no
\* uncovered node, and its assertion "The size should be tracked
\* accurately." holds on every call in every reachable grid state.
C33_IsEmptySafe ==
    status = "ok" =>
        \A c \in 1..problem.nc :
            /\ column_is_empty(grid, c, problem.debug).value <=> (rows(grid, c) = <<>>)
            /\ column_is_empty(grid, c, problem.debug).fail = "none"

\* The value alone, and the size the assertion is about.
C33_ValueAndSize ==
    status = "ok" =>
        \A c \in 1..problem.nc :
            /\ column_is_empty(grid, c, problem.debug).value <=> (rows(grid, c) = <<>>)
            /\ grid.size[c] = Len(rows(grid, c))

\* With debug assertions the call fails in every state.
C33_AlwaysFails ==
    (status = "ok" /\ problem.debug) =>
        \A c \in 1..problem.nc : column_is_empty(grid, c, TRUE).fail # "none"

\* A coordinate whose row or column is 0, or whose column is beyond
\* num_columns.
BadCoords ==
    \E p \in GivenCoords : p[1] = 0 \/ p[2] = 0 \/ p[2] > problem.nc

\* C39: Grid::new rejects bad coordinates: a coordinate whose row or column
\* is 0, or whose column is greater than num_columns, makes construction
\* fail instead of producing a grid.
C39_Rejects ==
    (last.op = "new" /\ BadCoords) => status # "ok"

\* With debug assertions every bad coordinate is met by one of the two
\* assertions.
C39_DebugRejects ==
    (last.op = "new" /\ BadCoords /\ problem.debug) =>
        status \in {"debug_assert_zero", "debug_assert_bounds"}

\* Without them a bad column fails on the index into columns_data.
C39_ReleaseColumns ==
    (last.op = "new" /\ ~problem.debug
        /\ \E p \in GivenCoords : p[2] = 0 \/ p[2] > problem.nc) =>
        status = "index_out_of_bounds"

\* The rows of dense grid d that are not hidden and have an entry in column.
DenseLiveRows(d, column) ==
    {row \in 0..(d.num_rows - 1) :
        row \notin d.covered_rows /\ to_index(row, column, d.num_columns) \in d.data}

\* C38: on the dense grid cover(c) hides exactly the rows that are not hidden
\* and have an entry in c, and the matching uncover(c) un-hides exactly those
\* rows: after a cover/uncover pair, and after a nested pair of pairs, the
\* covered rows, the covered columns and the cover stack are what they were,
\* and column_size(d) is the number of rows of uncovered_rows_in_column(d).
C38_DenseRoundTrip ==
    status = "ok" =>
        LET d == DenseAfter(problem, coverStack)
        IN  /\ d.fail = "none"
            /\ \A col \in 0..(problem.nc - 1) :
                   DenseColumnSize(d, col) = Len(DenseUncoveredRowsInColumn(d, col))
            /\ \A c \in 0..(problem.nc - 1) : c \notin d.covered_columns =>
                   LET d1 == DenseCover(d, c)
                   IN  /\ d1.fail = "none"
                       /\ d1.covered_rows = d.covered_rows \cup DenseLiveRows(d, c)
                       /\ d1.covered_columns = d.covered_columns \cup {c}
                       /\ DenseUncover(d1, c).covered_rows = d1.covered_rows \ DenseLiveRows(d, c)
                       /\ DenseUncover(d1, c) = d
                       /\ \A e \in 0..(problem.nc - 1) : e \notin d1.covered_columns =>
                              /\ DenseUncover(DenseCover(d1, e), e) = d1
                              /\ DenseUncover(DenseUncover(DenseCover(d1, e), e), c) = d
            /\ coverStack # <<>> =>
                   DenseUncover(d, Last(coverStack) - 1) = DenseAfter(problem, Front(coverStack))

\* A column is covered whose rows were partly hidden by the cover before it.
C38_Witness ==
    /\ status = "ok"
    /\ Len(coverStack) = 1
    /\ LET d == DenseAfter(problem, coverStack)
       IN  \E c \in 0..(problem.nc - 1) :
               /\ c \notin d.covered_columns
               /\ DenseLiveRows(d, c) # {}
               /\ \E row \in d.covered_rows : to_index(row, c, d.num_columns) \in d.data
               /\ DenseUncover(DenseCover(d, c), c) = d

\* The rows (1-based) with an entry in column c none of whose columns is
\* covered, and the columns (1-based) in which row r has an entry.
LiveRowsOf(c) ==
    {r \in 1..problem.np :
        /\ <<r - 1, c - 1>> \in problem.satisfies
        /\ \A d \in 1..problem.nc : <<r - 1, d - 1>> \in problem.satisfies => ~grid.is_covered[d]}

ColumnsOfRow(r) == {d \in 1..problem.nc : <<r - 1, d - 1>> \in problem.satisfies}

\* C34: the candidate queue of a frame just created for column c lists every
\* live row of c in ascending row order; each candidate's column list holds
\* exactly the columns in which the row has an entry, c among them, each
\* once; and none of them is covered when the candidate's Cover step runs.
C34_Candidates ==
    (status = "ok" /\ stack # <<>> /\ Last(stack).state = "Cover") =>
        LET frame == Last(stack)
            c == frame.min_column
            queue == frame.selected_rows
        IN  /\ last.op \in {"new", "cover"} =>
                   [i \in 1..Len(queue) |-> queue[i].row] = SortedSeq(LiveRowsOf(c))
            /\ \A i \in 1..Len(queue) :
                   /\ Range(queue[i].columns) = ColumnsOfRow(queue[i].row)
                   /\ Len(queue[i].columns) = Cardinality(ColumnsOfRow(queue[i].row))
                   /\ c \in Range(queue[i].columns)
            /\ \A d \in Range(queue[1].columns) : ~grid.is_covered[d]

\* A Cover step has just left grid g unsolved with no live row in the column
\* choose_column picks.
DeadEnd(g, op, st) ==
    /\ op = "cover" /\ st = "ok"
    /\ ~solution_test(g, problem)
    /\ rows(g, choose_column(g, problem)) = <<>>

\* C35: when a Cover step leaves the grid unsolved and the chosen column has
\* no live row, no frame is pushed and nothing is emitted, and the next step
\* of the loop is the Uncover step of the candidate just covered.
C35_DeadEnd ==
    [][/\ DeadEnd(grid', last'.op, status')
           => /\ Len(stack') = Len(stack)
              /\ Last(stack').state = "Uncover"
              /\ Last(stack').covered = Last(stack).selected_rows[1].columns
              /\ emitted' = emitted
              /\ result'.kind = "pending"
       /\ (DeadEnd(grid, last.op, status) /\ last'.op \in {"cover", "uncover", "none"})
           => /\ last'.op = "uncover"
              /\ calls' = CallsOf("uncover", UncoverOrder(Last(stack).covered))
              /\ Last(stack).covered = Last(stack).selected_rows[1].columns
              /\ Last(partial_solution) = Last(stack).selected_rows[1].row - 1
              /\ emitted' = emitted]_vars

\* A dead end below the top frame's candidate.
C35_Witness ==
    /\ stack # <<>>
    /\ DeadEnd(grid, last.op, status)
    /\ column_size(grid, choose_column(grid, problem)) = 0
    /\ Last(stack).state = "Uncover"

\* C36: once next_solution() has returned None, the stack and the partial
\* solution are empty and the grid is the one construction built: no column
\* covered, every size and link as built.
C36_AfterNone ==
    (result.kind = "none" /\ status = "ok") =>
        /\ stack = <<>>
        /\ partial_solution = <<>>
        /\ grid = populate_grid(problem)

\* C36, the calls after it: every later next_solution() returns None again
\* until reset() is called.
C36_StaysNone ==
    [][(result.kind = "none" /\ last'.op # "new") =>
           (result'.kind = "none" /\ stack' = <<>> /\ grid' = grid)]_vars

\* The parts of C36 that hold in a debug build: the stack and the partial
\* solution are empty and no column is covered.
C36_DebugEmpty ==
    (result.kind = "none" /\ status = "ok" /\ problem.debug) =>
        /\ stack = <<>>
        /\ partial_solution = <<>>
        /\ \A c \in 1..problem.nc : ~grid.is_covered[c]

====
